---- MODULE Spec2Model ----
(***************************************************************************)
(* Model of python.py: a Streamlit dashboard that processes an uploaded    *)
(* three-column financial statement (growth rate, asset weights, current   *)
(* ratio), asks Gemini for a commentary, and keeps a sidebar chat whose    *)
(* history lives in st.session_state.                                      *)
(*                                                                         *)
(* Numbers.  The code works in floating point and replaces a zero divisor  *)
(* by 1e-9.  A number is modelled exactly as [n, d, e], standing for       *)
(* (n / d) * 10^e with n/d in lowest terms and d > 0; dividing by 1e-9     *)
(* multiplies by 10^9, that is, adds EpsExp to e.  Floating-point rounding *)
(* is not modelled.                                                        *)
(*                                                                         *)
(* Text.  A line-item name is a sequence of words; a word stands for a     *)
(* fixed run of characters ("TONG_CONG" for "TỔNG CỘNG", ...), in upper or *)
(* lower case.  Substring search is search for a contiguous run of words.  *)
(***************************************************************************)
EXTENDS Integers, Sequences, FiniteSets, TLC

VARIABLES
    client,         \* TRUE iff genai.Client was constructed (line 27)
    chat_session,   \* st.session_state.chat_session: Unset, None or a conversation id
    messages,       \* st.session_state["messages"]
    convs,          \* provider side: convs[i] = prompts conversation i has answered
    api_calls,      \* provider requests made so far (send_message, generate_content)
    lastOp,         \* what the last interaction was and how it went
    uploaded_file,  \* the file held by the st.file_uploader widget
    page,           \* what the last script run rendered on the main page
    u_df,           \* direct calls: the table handed to process_financial_data
    u_out,          \* direct calls: result of process_financial_data(u_df)
    u_out2,         \* direct calls: result of applying it again to u_out
    u_ai            \* direct calls: result of get_ai_analysis

vars == <<client, chat_session, messages, convs, api_calls, lastOp,
          uploaded_file, page, u_df, u_out, u_out2, u_ai>>

appVars == <<client, chat_session, messages, convs, api_calls, lastOp,
             uploaded_file, page>>

unitVars == <<u_df, u_out, u_out2, u_ai>>

----------------------------------------------------------------------------
(* Bounds *)

\* rows of an uploaded sheet
MaxRows == 3

\* rows of a table handed directly to process_financial_data
MaxUnitRows == 2

\* provider requests (chat sends and narrative requests) in one session
MaxCalls == 3

\* conversations the provider creates in one session
MaxConvs == 3

----------------------------------------------------------------------------
(* Exact arithmetic *)

\* 1e-9 = 10^(-EpsExp), the substitute for a zero divisor
EpsExp == 9

Abs(x) == IF x < 0 THEN -x ELSE x

RECURSIVE GCD(_, _)
GCD(a, b) == IF b = 0 THEN a ELSE GCD(b, a % b)

\* (n / d) * 10^e in canonical form; d # 0
Norm(n, d, e) ==
    IF n = 0 THEN [n |-> 0, d |-> 1, e |-> 0]
    ELSE LET g == GCD(Abs(n), Abs(d))
             s == IF d < 0 THEN -1 ELSE 1
         IN  [n |-> (s * n) \div g, d |-> (s * d) \div g, e |-> e]

FromInt(x) == Norm(x, 1, 0)

RECURSIVE Pow10(_)
Pow10(k) == IF k = 0 THEN 1 ELSE 10 * Pow10(k - 1)

QAdd(x, y) ==
    IF x.n = 0 THEN y
    ELSE IF y.n = 0 THEN x
    ELSE LET m  == IF x.e < y.e THEN x.e ELSE y.e
             xn == x.n * Pow10(x.e - m)
             yn == y.n * Pow10(y.e - m)
         IN  Norm(xn * y.d + yn * x.d, x.d * y.d, m)

QTimes100(x) == Norm(x.n * 100, x.d, x.e)

\* x / y for numbers x, y with y # 0 and y.e = 0
QDiv(x, y) == Norm(x.n * y.d, x.d * y.n, x.e)

\* x / 1e-9
QDivEps(x) == Norm(x.n, x.d, x.e + EpsExp)

IsZero(x) == x.n = 0

----------------------------------------------------------------------------
(* Spreadsheet cells and line-item names *)

\* a value cell as read by pd.read_excel: a number, or anything else (text, empty)
NumCell(x) == [kind |-> "num", v |-> x]
TextCell   == [kind |-> "text", v |-> 0]

\* a name cell: text (a sequence of words) or missing (NaN)
Name(ws) == [na |-> FALSE, w |-> ws]
NoName   == [na |-> TRUE, w |-> <<>>]

\* the three search keys of the code
TONG_CONG_TAI_SAN == <<"TONG_CONG", "TAI_SAN">>
TAI_SAN_NGAN_HAN  == <<"TAI_SAN", "NGAN_HAN">>
NO_NGAN_HAN       == <<"NO", "NGAN_HAN">>

\* str.upper() on one word
UpperWord(w) ==
    CASE w = "tong_cong" -> "TONG_CONG"
      [] w = "tai_san"   -> "TAI_SAN"
      [] w = "ngan_han"  -> "NGAN_HAN"
      [] w = "no"        -> "NO"
      [] w = "khac"      -> "KHAC"
      [] OTHER           -> w

Upper(ws) == [i \in 1..Len(ws) |-> UpperWord(ws[i])]

\* `pat in text` on upper-cased text
HasRun(ws, pat) ==
    \E i \in 1..Len(ws) :
        /\ i + Len(pat) - 1 <= Len(ws)
        /\ SubSeq(ws, i, i + Len(pat) - 1) = pat

\* Series.str.contains(pat, case=False, na=False) for one name
str_contains(name, pat) ==
    IF name.na THEN FALSE ELSE HasRun(Upper(name.w), pat)

\* indices of the rows that df[df['Chỉ tiêu'].str.contains(...)] keeps
Matching(df, pat) == {i \in 1..Len(df) : str_contains(df[i].name, pat)}

Min(S) == CHOOSE x \in S : \A y \in S : x <= y

\* df['Chỉ tiêu'].str.upper().str.cat(sep=' '): missing names are skipped
RECURSIVE str_cat_upper(_)
str_cat_upper(df) ==
    IF df = <<>> THEN <<>>
    ELSE LET h == Head(df).name
         IN  (IF h.na THEN <<>> ELSE Upper(h.w)) \o str_cat_upper(Tail(df))

----------------------------------------------------------------------------
(* process_financial_data *)

\* pd.to_numeric(errors='coerce'): a number, or NaN
to_numeric(c) == IF c.kind = "num" THEN [nan |-> FALSE, v |-> c.v]
                 ELSE [nan |-> TRUE, v |-> 0]

\* .fillna(0)
fillna0(x) == IF x.nan THEN 0 ELSE x.v

coerce(c) == NumCell(fillna0(to_numeric(c)))

\* x / y with a zero y replaced by 1e-9
DivSafe(x, y) == IF IsZero(y) THEN QDivEps(x) ELSE QDiv(x, y)

\* a zero prior year answered with a growth of 0 instead of the 1e-9 divisor
GrowthRate_zero(prior, cur) ==
    IF prior = 0 THEN FromInt(0)
    ELSE QTimes100(QDiv(FromInt(cur - prior), FromInt(prior)))

\* (Năm sau - Năm trước) / Năm trước.replace(0, 1e-9) * 100
GrowthRate(prior, cur) ==
    QTimes100(DivSafe(FromInt(cur - prior), FromInt(prior)))

\* the weight left as a fraction, not a percentage
Weight_noscale(value, total) == DivSafe(FromInt(value), FromInt(total))

\* (value / divisor) * 100, divisor = total if total != 0 else 1e-9
Weight(value, total) == QTimes100(DivSafe(FromInt(value), FromInt(total)))

\* the change stored in the 'Năm sau' column itself
Coerced_inplace(df) ==
    [i \in 1..Len(df) |->
        [name  |-> df[i].name,
         prior |-> coerce(df[i].prior),
         cur   |-> NumCell(coerce(df[i].cur).v - coerce(df[i].prior).v)]]

\* the table after the coercion of lines 50-52
Coerced(df) ==
    [i \in 1..Len(df) |->
        [name |-> df[i].name, prior |-> coerce(df[i].prior), cur |-> coerce(df[i].cur)]]

Raised(kind) == [raised |-> kind, df |-> <<>>]
Returned(df) == [raised |-> "none", df |-> df]

\* the empty-selection check of lines 62-63 left out: iloc[0] raises IndexError
process_financial_data_nocheck(df) ==
    LET c    == Coerced(df)
        hits == Matching(c, TONG_CONG_TAI_SAN)
    IN  IF hits = {} THEN Raised("IndexError")
        ELSE LET t == c[Min(hits)]
             IN  Returned(
                   [i \in 1..Len(c) |->
                      [name   |-> c[i].name,
                       prior  |-> c[i].prior,
                       cur    |-> c[i].cur,
                       growth |-> GrowthRate(c[i].prior.v, c[i].cur.v),
                       wPrior |-> Weight(c[i].prior.v, t.prior.v),
                       wCur   |-> Weight(c[i].cur.v, t.cur.v)]])

process_financial_data(df) ==
    LET c    == Coerced(df)
        hits == Matching(c, TONG_CONG_TAI_SAN)
    IN  IF hits = {} THEN Raised("ValueError")
        ELSE LET t      == c[Min(hits)]
                 tong_1 == t.prior.v
                 tong_N == t.cur.v
             IN  Returned(
                   [i \in 1..Len(c) |->
                      [name   |-> c[i].name,
                       prior  |-> c[i].prior,
                       cur    |-> c[i].cur,
                       growth |-> GrowthRate(c[i].prior.v, c[i].cur.v),
                       wPrior |-> Weight(c[i].prior.v, tong_1),
                       wCur   |-> Weight(c[i].cur.v, tong_N)]])

----------------------------------------------------------------------------
(* get_ai_analysis *)

\* what client.models.generate_content / chat_session.send_message can do
Outcomes == {"ok", "APIError", "Exception"}

\* only APIError caught: any other exception leaves the function
get_ai_analysis_noexcept(cl, data_for_ai, outcome) ==
    IF ~cl
    THEN [raised |-> FALSE, called |-> FALSE, text |-> "client_not_initialised"]
    ELSE CASE outcome = "ok" ->
                [raised |-> FALSE, called |-> TRUE, text |-> "response_text"]
           [] outcome = "APIError" ->
                [raised |-> FALSE, called |-> TRUE, text |-> "api_error_text"]
           [] OTHER ->
                [raised |-> TRUE, called |-> TRUE, text |-> ""]

\* get_ai_analysis(data_for_ai) with the module-level client `cl`; `outcome`
\* is what the provider call does if it is made.  raised: an exception
\* leaves the function; called: the provider was called.
get_ai_analysis(cl, data_for_ai, outcome) ==
    IF ~cl
    THEN [raised |-> FALSE, called |-> FALSE, text |-> "client_not_initialised"]
    ELSE CASE outcome = "ok" ->
                [raised |-> FALSE, called |-> TRUE, text |-> "response_text"]
           [] outcome = "APIError" ->
                [raised |-> FALSE, called |-> TRUE, text |-> "api_error_text"]
           [] OTHER ->
                [raised |-> FALSE, called |-> TRUE, text |-> "unknown_error_text"]

----------------------------------------------------------------------------
(* The main page: lines 170-265, one script run *)

NoFile      == [kind |-> "none",       rows |-> <<>>]
CorruptFile == [kind |-> "corrupt",    rows |-> <<>>]
WrongCols   == [kind |-> "wrong_cols", rows |-> <<>>]
Sheet(rows) == [kind |-> "sheet",      rows |-> rows]

NA       == [na |-> TRUE,  q |-> FromInt(0)]
Ratio(q) == [na |-> FALSE, q |-> q]

\* what a run renders: the elements shown, the processed table, the two
\* current ratios, the text got from Gemini, and whether the run called it
PageOf(els, df, l1, lN, ai, called) ==
    [elements |-> els, df |-> df, liq_1 |-> l1, liq_N |-> lN,
     ai_text |-> ai, called |-> called]

\* lines 200-228: both ratios, or IndexError caught and both "N/A"
Liquidity(df) ==
    LET tsnh == Matching(df, TAI_SAN_NGAN_HAN)
        nnh  == Matching(df, NO_NGAN_HAN)
    IN  IF tsnh = {} \/ nnh = {}
        THEN [miss |-> TRUE, liq_1 |-> NA, liq_N |-> NA]
        ELSE LET a == df[Min(tsnh)]
                 l == df[Min(nnh)]
             IN  [miss  |-> FALSE,
                  liq_1 |-> Ratio(DivSafe(FromInt(a.prior.v), FromInt(l.prior.v))),
                  liq_N |-> Ratio(DivSafe(FromInt(a.cur.v), FromInt(l.cur.v)))]

\* line 243: the growth figure of data_for_ai; iloc[0] on an empty selection
\* raises IndexError
GrowthForAI(df) ==
    IF HasRun(str_cat_upper(df), TAI_SAN_NGAN_HAN)
    THEN LET tsnh == Matching(df, TAI_SAN_NGAN_HAN)
         IN  IF tsnh = {} THEN [raised |-> TRUE, na |-> TRUE, q |-> FromInt(0)]
             ELSE [raised |-> FALSE, na |-> FALSE, q |-> df[Min(tsnh)].growth]
    ELSE [raised |-> FALSE, na |-> TRUE, q |-> FromInt(0)]

\* the request sent without looking at `client`
AISection_noguard(cl, df, click, outcome) ==
    IF ~click THEN [els |-> {"ai_button"}, text |-> "", called |-> FALSE]
    ELSE LET r == get_ai_analysis(TRUE, df, outcome)
         IN  [els |-> {"ai_button", "ai_result"}, text |-> r.text, called |-> r.called]

\* lines 249-257: the "Yêu cầu AI Phân tích" button and what a click shows
AISection(cl, df, click, outcome) ==
    IF ~click THEN [els |-> {"ai_button"}, text |-> "", called |-> FALSE]
    ELSE IF cl
    THEN LET r == get_ai_analysis(cl, df, outcome)
         IN  IF r.raised
             THEN [els |-> {"ai_button", "err_generic"}, text |-> "", called |-> r.called]
             ELSE [els |-> {"ai_button", "ai_result"}, text |-> r.text, called |-> r.called]
    ELSE [els |-> {"ai_button", "err_no_key"}, text |-> "", called |-> FALSE]

\* one run of lines 170-265 with `file` in the uploader; click: the analysis
\* button was pressed; outcome: what the provider does if it is called
RunPage(cl, file, click, outcome) ==
    CASE file.kind = "none"       -> PageOf({"info_upload"}, <<>>, NA, NA, "", FALSE)
      [] file.kind = "corrupt"    -> PageOf({"err_generic"}, <<>>, NA, NA, "", FALSE)
      [] file.kind = "wrong_cols" -> PageOf({"err_structure"}, <<>>, NA, NA, "", FALSE)
      [] OTHER ->
         LET r == process_financial_data(file.rows)
         IN  IF r.raised = "ValueError"
             THEN PageOf({"err_structure"}, <<>>, NA, NA, "", FALSE)
             ELSE IF r.raised # "none"
             THEN PageOf({"err_generic"}, <<>>, NA, NA, "", FALSE)
             ELSE
             LET df  == r.df
                 liq == Liquidity(df)
                 els == {"table", "ai_header"} \cup
                        (IF liq.miss THEN {"liq_warning"} ELSE {"metrics"})
                 g   == GrowthForAI(df)
             IN  IF g.raised
                 THEN PageOf(els \cup {"err_generic"}, df, liq.liq_1, liq.liq_N, "", FALSE)
                 ELSE LET a == AISection(cl, df, click, outcome)
                      IN  PageOf(els \cup a.els, df, liq.liq_1, liq.liq_N, a.text, a.called)

\* a plain rerun of the script (no button pressed)
Rerun(cl, file) == RunPage(cl, file, FALSE, "ok")

\* a run that an uncaught exception stopped in the sidebar (line 159)
AbortedPage == PageOf({"exception"}, <<>>, NA, NA, "", FALSE)

----------------------------------------------------------------------------
(* The sidebar chat: lines 32-42, 103-134, 140-162 *)

Unset     == [st |-> "unset", id |-> 0]   \* "chat_session" not in session_state
NoSession == [st |-> "none",  id |-> 0]   \* chat_session = None
Conv(i)   == [st |-> "open",  id |-> i]   \* the conversation chats.create returned

Prompts == {"p1", "p2"}

User(p)      == [role |-> "user", content |-> p]
Assistant(c) == [role |-> "assistant", content |-> c]

\* the except branch showing the error without recording it
handle_chat_submit_drop_error(session, msgs, cs, prompt, outcome) ==
    IF session.st # "open"
    THEN [messages |-> msgs, convs |-> cs, called |-> FALSE,
          result |-> "no_session", at_send |-> 0]
    ELSE LET m1 == Append(msgs, User(prompt))
         IN  IF outcome = "ok"
             THEN [messages |-> Append(m1, Assistant("response_text")),
                   convs    |-> [cs EXCEPT ![session.id] = Append(@, prompt)],
                   called   |-> TRUE, result |-> "ok", at_send |-> Len(m1)]
             ELSE [messages |-> m1, convs |-> cs,
                   called   |-> TRUE, result |-> "raise", at_send |-> Len(m1)]

\* handle_chat_submit(prompt); outcome: what send_message does.
\* at_send: the length of the history when send_message is called (0: not called)
handle_chat_submit(session, msgs, cs, prompt, outcome) ==
    IF session.st # "open"
    THEN [messages |-> msgs, convs |-> cs, called |-> FALSE,
          result |-> "no_session", at_send |-> 0]
    ELSE LET m1 == Append(msgs, User(prompt))
         IN  IF outcome = "ok"
             THEN [messages |-> Append(m1, Assistant("response_text")),
                   convs    |-> [cs EXCEPT ![session.id] = Append(@, prompt)],
                   called   |-> TRUE, result |-> "ok", at_send |-> Len(m1)]
             ELSE [messages |-> Append(m1, Assistant("error_text")),
                   convs    |-> cs,
                   called   |-> TRUE, result |-> "raise", at_send |-> Len(m1)]

\* lines 157-160: the "Xóa Lịch sử Chat" button; outcome: what chats.create does
reset_chat(session, cs, outcome) ==
    IF outcome = "ok"
    THEN [messages |-> <<>>, convs |-> Append(cs, <<>>),
          chat_session |-> Conv(Len(cs) + 1), result |-> "ok"]
    ELSE [messages |-> <<>>, convs |-> cs,
          chat_session |-> session, result |-> "raise"]

Op(op, result, at_send) == [op |-> op, result |-> result, at_send |-> at_send]

----------------------------------------------------------------------------
(* Inputs *)

SeqsUpTo(S, n) == UNION {[1..k -> S] : k \in 0..n}

\* the names the code searches for, in either case
LineItems ==
    {Name(TONG_CONG_TAI_SAN), Name(<<"tai_san", "ngan_han">>), Name(NO_NGAN_HAN)}

\* names it does not search for: another item, a missing name
OtherItems == {Name(<<"NGAN_HAN", "KHAC">>), NoName}

SheetRows ==
    {[name |-> nm, prior |-> NumCell(2), cur |-> c] :
        nm \in LineItems, c \in {NumCell(0), NumCell(4)}}
    \cup {[name |-> nm, prior |-> NumCell(2), cur |-> NumCell(4)] : nm \in OtherItems}

\* every file the dashboard is checked on
Files == {CorruptFile, WrongCols} \cup
         {Sheet(r) : r \in SeqsUpTo(SheetRows, MaxRows)}

Row(ws, p, c) == [name |-> Name(ws), prior |-> NumCell(p), cur |-> NumCell(c)]

\* a complete statement, one without the total row, one with nothing but it
FullSheet ==
    Sheet(<<Row(TONG_CONG_TAI_SAN, 100, 200), Row(TAI_SAN_NGAN_HAN, 40, 120),
            Row(NO_NGAN_HAN, 20, 40)>>)
NoTotalSheet ==
    Sheet(<<Row(TAI_SAN_NGAN_HAN, 40, 120), Row(NO_NGAN_HAN, 20, 40)>>)
TotalOnlySheet ==
    Sheet(<<Row(TONG_CONG_TAI_SAN, 100, 200)>>)

\* the files uploaded while the chat is in use
SampleFiles == {CorruptFile, FullSheet, NoTotalSheet, TotalOnlySheet}

\* tables handed directly to process_financial_data
UnitCells == {NumCell(-1), NumCell(0), NumCell(2), TextCell}

UnitRows ==
    {[name |-> nm, prior |-> p, cur |-> c] :
        nm \in {Name(TONG_CONG_TAI_SAN), Name(<<"tai_san", "ngan_han">>)},
        p \in UnitCells, c \in UnitCells}

UnitTables == SeqsUpTo(UnitRows, MaxUnitRows)

NotRun   == [raised |-> "not_run", df |-> <<>>]
NotAsked == [raised |-> FALSE, called |-> FALSE, text |-> "not_asked"]

----------------------------------------------------------------------------
(* The application: one browser session *)

\* lines 20-42 on the first run, then the page with no file uploaded.
\* create: what client.chats.create does at line 39
SessionStart(cl, create) ==
    /\ client = cl
    /\ messages = <<>>
    /\ IF ~cl THEN chat_session = Unset /\ convs = <<>>
       ELSE IF create = "ok" THEN chat_session = Conv(1) /\ convs = << <<>> >>
       ELSE chat_session = NoSession /\ convs = <<>>
    /\ api_calls = 0
    /\ lastOp = Op("start", create, 0)
    /\ uploaded_file = NoFile
    /\ page = Rerun(cl, NoFile)

UnitIdle ==
    /\ u_df = <<>>
    /\ u_out = NotRun
    /\ u_out2 = NotRun
    /\ u_ai = NotAsked

Init ==
    /\ \E cl \in BOOLEAN, create \in {"ok", "raise"} : SessionStart(cl, create)
    /\ UnitIdle

\* the user submits `prompt` in st.chat_input (offered only with a client):
\* the on_submit callback runs handle_chat_submit, then the script reruns
ChatSubmit(prompt, outcome) ==
    /\ client
    /\ chat_session.st = "open" => api_calls < MaxCalls
    /\ LET r == handle_chat_submit(chat_session, messages, convs, prompt, outcome)
       IN  /\ messages' = r.messages
           /\ convs' = r.convs
           /\ api_calls' = api_calls + (IF r.called THEN 1 ELSE 0)
           /\ lastOp' = Op("submit", r.result, r.at_send)
    /\ page' = Rerun(client, uploaded_file)
    /\ UNCHANGED <<client, chat_session, uploaded_file, unitVars>>

\* the user presses "Xóa Lịch sử Chat" (offered only with a client)
ResetChat(outcome) ==
    /\ client
    /\ outcome = "ok" => Len(convs) < MaxConvs
    /\ LET r == reset_chat(chat_session, convs, outcome)
       IN  /\ messages' = r.messages
           /\ convs' = r.convs
           /\ chat_session' = r.chat_session
           /\ lastOp' = Op("reset", r.result, 0)
           /\ page' = IF r.result = "ok" THEN Rerun(client, uploaded_file)
                      ELSE AbortedPage
    /\ UNCHANGED <<client, api_calls, uploaded_file, unitVars>>

\* the user puts `file` in the empty uploader; the script reruns
Upload(file) ==
    /\ uploaded_file = NoFile
    /\ uploaded_file' = file
    /\ page' = Rerun(client, file)
    /\ lastOp' = Op("upload", "ok", 0)
    /\ UNCHANGED <<client, chat_session, messages, convs, api_calls, unitVars>>

\* the user removes the file from the uploader; the script reruns
RemoveFile ==
    /\ uploaded_file # NoFile
    /\ uploaded_file' = NoFile
    /\ page' = Rerun(client, NoFile)
    /\ lastOp' = Op("remove", "ok", 0)
    /\ UNCHANGED <<client, chat_session, messages, convs, api_calls, unitVars>>

\* the user presses "Yêu cầu AI Phân tích"
ClickAnalyze(outcome) ==
    /\ "ai_button" \in page.elements
    /\ client => api_calls < MaxCalls
    /\ page' = RunPage(client, uploaded_file, TRUE, outcome)
    /\ api_calls' = api_calls + (IF page'.called THEN 1 ELSE 0)
    /\ lastOp' = Op("analyze", IF page'.called THEN outcome ELSE "not_called", 0)
    /\ UNCHANGED <<client, chat_session, messages, convs, uploaded_file, unitVars>>

Next ==
    \/ \E p \in Prompts, o \in Outcomes : ChatSubmit(p, o)
    \/ \E o \in {"ok", "raise"} : ResetChat(o)
    \/ \E f \in SampleFiles : Upload(f)
    \/ RemoveFile
    \/ \E o \in Outcomes : ClickAnalyze(o)

Spec == Init /\ [][Next]_vars

----------------------------------------------------------------------------
(* The dashboard alone, on every file within the bounds *)

DashInit ==
    /\ \E cl \in BOOLEAN : SessionStart(cl, "ok")
    /\ UnitIdle

DashNext ==
    \/ \E f \in Files : Upload(f)
    \/ RemoveFile
    \/ \E o \in Outcomes : ClickAnalyze(o)

SpecDash == DashInit /\ [][DashNext]_vars

----------------------------------------------------------------------------
(* Direct calls of the two functions *)

UnitInit ==
    /\ \E cl \in BOOLEAN : SessionStart(cl, "ok")
    /\ u_df \in UnitTables
    /\ u_out = NotRun
    /\ u_out2 = NotRun
    /\ u_ai = NotAsked

CallProcess ==
    /\ u_out = NotRun
    /\ u_out' = process_financial_data(u_df)
    /\ UNCHANGED <<appVars, u_df, u_out2, u_ai>>

\* process_financial_data applied to its own output
CallProcessAgain ==
    /\ u_out.raised = "none"
    /\ u_out2 = NotRun
    /\ u_out2' = process_financial_data(u_out.df)
    /\ UNCHANGED <<appVars, u_df, u_out, u_ai>>

CallAnalyze(outcome) ==
    /\ u_out # NotRun
    /\ u_ai = NotAsked
    /\ u_ai' = get_ai_analysis(client, u_out.df, outcome)
    /\ UNCHANGED <<appVars, u_df, u_out, u_out2>>

UnitNext ==
    \/ CallProcess
    \/ CallProcessAgain
    \/ \E o \in Outcomes : CallAnalyze(o)

SpecUnit == UnitInit /\ [][UnitNext]_vars

----------------------------------------------------------------------------
(* Properties of the sidebar chat *)

IsPrefix(a, b) == Len(a) <= Len(b) /\ SubSeq(b, 1, Len(a)) = a

RoleAt(i) == IF i % 2 = 1 THEN "user" ELSE "assistant"

\* C1: every chat submit whose turn fails (send_message raises, or there is
\* no chat session) leaves the history exactly two entries longer: the
\* user's message, then one error entry.
C1_FailedSubmitAddsTwo ==
    [][(lastOp'.op = "submit" /\ lastOp'.result \in {"raise", "no_session"})
        => /\ Len(messages') = Len(messages) + 2
           /\ IsPrefix(messages, messages')
           /\ messages'[Len(messages) + 1].role = "user"
           /\ messages'[Len(messages) + 2] = Assistant("error_text")]_vars

\* C2: the history is a gapless alternating log: user and assistant entries
\* alternate starting with a user entry and every turn has both; the user
\* entry is already in the history when send_message is called; and except
\* by a reset no entry is removed or changed.
C2_AlternatingLog ==
    /\ [](/\ Len(messages) % 2 = 0
          /\ \A i \in 1..Len(messages) : messages[i].role = RoleAt(i))
    /\ []((lastOp.op = "submit" /\ lastOp.result # "no_session")
            => /\ lastOp.at_send = Len(messages) - 1
               /\ messages[lastOp.at_send].role = "user")
    /\ [][lastOp'.op # "reset" => IsPrefix(messages, messages')]_vars

\* a failed turn is in the history and a later turn was appended after it
C2_Witness ==
    /\ Len(messages) >= 4
    /\ messages[2] = Assistant("error_text")
    /\ messages[4] = Assistant("response_text")

\* C3: after the reset button the history is empty and the session in use
\* is a conversation that holds none of the earlier turns, whatever
\* chats.create did.
C3_ResetStartsFresh ==
    lastOp.op = "reset"
        => /\ messages = <<>>
           /\ chat_session.st = "open" => convs[chat_session.id] = <<>>

----------------------------------------------------------------------------
(* Properties of the dashboard *)

HasItem(rows, pat) == Matching(rows, pat) # {}

Shown(e) == e \in page.elements

\* C4: a missing short-term line item makes the ratios "N/A" and nothing
\* else: the ratios are unavailable only then, and the run still produces
\* the table and the AI section.
C4_LookupMissNeverBlocks ==
    (uploaded_file.kind = "sheet" /\ HasItem(uploaded_file.rows, TONG_CONG_TAI_SAN))
        => LET miss == ~HasItem(uploaded_file.rows, TAI_SAN_NGAN_HAN)
                       \/ ~HasItem(uploaded_file.rows, NO_NGAN_HAN)
           IN  /\ page.liq_1.na <=> miss
               /\ page.liq_N.na <=> miss
               /\ Shown("table")
               /\ Shown("ai_button")
               /\ ~Shown("err_generic")

C7_NoCredential ==
    ~client
        => /\ ~ENABLED (\E p \in Prompts, o \in Outcomes : ChatSubmit(p, o))
           /\ ~ENABLED (\E o \in {"ok", "raise"} : ResetChat(o))
           /\ api_calls = 0 /\ convs = <<>> /\ messages = <<>>
           /\ ~Shown("ai_result")
           /\ (uploaded_file.kind = "sheet"
               /\ HasItem(uploaded_file.rows, TONG_CONG_TAI_SAN))
                 => /\ Shown("table")
                    /\ Len(page.df) = Len(uploaded_file.rows)
                    /\ (HasItem(uploaded_file.rows, TAI_SAN_NGAN_HAN)
                        /\ HasItem(uploaded_file.rows, NO_NGAN_HAN))
                          => /\ Shown("metrics")
                             /\ ~page.liq_1.na /\ ~page.liq_N.na

\* no credential, the complete statement uploaded, the analysis asked for
C7_Witness ==
    /\ ~client
    /\ uploaded_file = FullSheet
    /\ Shown("metrics")
    /\ page.liq_1 = Ratio(FromInt(2)) /\ page.liq_N = Ratio(FromInt(3))
    /\ lastOp.op = "analyze"
    /\ Shown("err_no_key")

----------------------------------------------------------------------------
(* Properties of the two functions *)

\* C6: get_ai_analysis never lets a failure out: whatever the provider
\* call does it returns a text to display, and with no client it returns
\* the fixed diagnostic without calling the provider.
C6_NeverPropagates ==
    u_ai # NotAsked
        => /\ ~u_ai.raised
           /\ IF client
              THEN /\ u_ai.called
                   /\ u_ai.text \in {"response_text", "api_error_text",
                                     "unknown_error_text"}
              ELSE /\ ~u_ai.called
                   /\ u_ai.text = "client_not_initialised"

C6_Witness == client /\ u_ai.called /\ u_ai.text = "unknown_error_text"

\* C8: applying process_financial_data to its own output gives the same
\* table: same growth and weight columns, same names and values.
C8_Idempotent ==
    u_out2 # NotRun => u_out2.raised = "none" /\ u_out2.df = u_out.df

\* a two-row table with a non-numeric cell, processed twice
C8_Witness ==
    /\ u_out2 # NotRun
    /\ Len(u_df) = 2
    /\ \E i \in 1..2 : u_df[i].prior = TextCell /\ u_df[i].cur = NumCell(2)

RECURSIVE SumOf(_, _)
SumOf(f, n) == IF n = 0 THEN FromInt(0) ELSE QAdd(SumOf(f, n - 1), f[n])

RECURSIVE IntSum(_, _)
IntSum(f, n) == IF n = 0 THEN 0 ELSE IntSum(f, n - 1) + f[n]

Hundred == FromInt(100)

WCurSum   == SumOf([i \in 1..Len(u_out.df) |-> u_out.df[i].wCur], Len(u_out.df))
WPriorSum == SumOf([i \in 1..Len(u_out.df) |-> u_out.df[i].wPrior], Len(u_out.df))
CurSum    == IntSum([i \in 1..Len(u_out.df) |-> u_out.df[i].cur.v], Len(u_out.df))
PriorSum  == IntSum([i \in 1..Len(u_out.df) |-> u_out.df[i].prior.v], Len(u_out.df))
TotalRow  == u_out.df[Min(Matching(u_out.df, TONG_CONG_TAI_SAN))]

\* C9 as stated: both weight columns sum to 100%.
C9_WeightsSumTo100 ==
    u_out.raised = "none" => WCurSum = Hundred /\ WPriorSum = Hundred

\* C9 amended: a weight column sums to 100% x (sum of the period's values,
\* the total row included) / (total assets, 1e-9 if it is 0); with a
\* nonzero total the total row weighs 100% itself and the column sums to
\* 100% exactly when the values add up to the total.
C9_WeightsSumToShare ==
    u_out.raised = "none"
        => /\ WCurSum = QTimes100(DivSafe(FromInt(CurSum), FromInt(TotalRow.cur.v)))
           /\ WPriorSum = QTimes100(DivSafe(FromInt(PriorSum), FromInt(TotalRow.prior.v)))
           /\ TotalRow.cur.v # 0
                => /\ TotalRow.wCur = Hundred
                   /\ (WCurSum = Hundred <=> CurSum = TotalRow.cur.v)
           /\ TotalRow.prior.v # 0
                => /\ TotalRow.wPrior = Hundred
                   /\ (WPriorSum = Hundred <=> PriorSum = TotalRow.prior.v)

\* the total row and one more row: the weights sum to 200%
C9_Witness ==
    /\ u_out.raised = "none"
    /\ Len(u_out.df) = 2
    /\ TotalRow.cur.v = 2
    /\ WCurSum = FromInt(200)

\* C10 as stated: prior 0 and current nonzero give a very large positive
\* growth rate.
C10_ZeroPriorGrowthPositive ==
    \A i \in 1..Len(u_out.df) :
        (u_out.df[i].prior.v = 0 /\ u_out.df[i].cur.v # 0)
            => /\ u_out.df[i].growth.e = EpsExp
               /\ u_out.df[i].growth.n > 0

\* C10 amended: prior 0 and current nonzero give the defined number
\* current x 10^11 (percent): very large in magnitude, with the sign of the
\* current value.
C10_ZeroPriorGrowthSigned ==
    \A i \in 1..Len(u_out.df) :
        (u_out.df[i].prior.v = 0 /\ u_out.df[i].cur.v # 0)
            => u_out.df[i].growth = [n |-> 100 * u_out.df[i].cur.v, d |-> 1, e |-> EpsExp]

\* a row whose prior cell is not a number and whose current value is negative
C10_Witness ==
    \E i \in 1..Len(u_out.df) :
        /\ u_df[i].prior = TextCell
        /\ u_out.df[i].prior.v = 0
        /\ u_out.df[i].cur.v = -1
        /\ u_out.df[i].growth.n < 0

====
